---- MODULE Spec2Model ----
(***************************************************************************)
(* A model of the two notebooks of PD-EEG-main.                            *)
(*                                                                         *)
(*   eeg_to_images.ipynb : azim_proj, augment_EEG, gen_images,             *)
(*                         gen_images_3d                                   *)
(*   EEG_1D_CNN.ipynb    : create_model and the cells of the training      *)
(*                         pipeline                                        *)
(*                                                                         *)
(* Arrays are functions over 0..n-1, as in the source.  A real number is   *)
(* kept exactly: a pixel value is the pair <<num, den2>> that stands for   *)
(* num / sqrt(den2); <<x, 1>> is the number x and <<0, 0>> is NaN.         *)
(***************************************************************************)
EXTENDS Integers, Sequences, FiniteSets, TLC

\* ------------------------------------------------------------------ bounds
MaxSamples == 2
MaxColors == 2
MaxGrid == 3
MaxCoord == 2
MaxLength == 2
MaxLabels == 7

VARIABLES
  \* gen_images: parameters
  locs, features, n_gridpoints, normalize, augment, pca, edgeless,
  \* gen_images: locals, position and return value
  pc, nElectrodes, n_colors, n_samples, feat_array_temp, temp_interp, c, i, images,
  \* main loop of eeg_to_images: the electrode positions, their projections
  \* and the number of electrodes projected so far
  locs_3d, locs_2d, e,
  \* gen_images_3d: the tensor built so far and the loop index (its other
  \* names, locs, features, n_gridpoints, n_samples, nElectrodes, n_colors,
  \* are those of gen_images)
  images_mat, sample,
  \* EEG_1D_CNN: the names bound in the kernel and the values that matter
  names, best_params, estimator, foldNum, f, split, dummy, predicted,
  cm_list, train_loss, accNet, shown, saved, raised,
  \* the k-fold cell: the other per-fold arrays (an entry counts the writes
  \* to it) and histories
  precisionNet, recallNet, f1_MacroNet, f1_weightedNet,
  val_loss, train_accuracy, val_accuracy,
  \* create_model: the arguments of one call
  args,
  \* kfold.split(features, labels): the labels, the fold of every sample,
  \* the folds still to hand out per class, the number of splits yielded and
  \* the split yielded last
  labels, test_folds, folds_for_class, yielded, train, test,
  \* main cell and pickle cell of eeg_to_images: the keys of the data file and
  \* of matContent, the index of the loop over matrices, the output file and
  \* what was printed
  mat_keys, matContent, matrix, mat_file, printed

giVars == <<locs, features, n_gridpoints, normalize, augment, pca, edgeless,
            pc, nElectrodes, n_colors, n_samples, feat_array_temp, temp_interp,
            c, i, images>>

azVars == <<locs_3d, locs_2d, e>>

g3Vars == <<images_mat, sample>>

foldVars == <<precisionNet, recallNet, f1_MacroNet, f1_weightedNet,
              val_loss, train_accuracy, val_accuracy>>

nbVars == <<names, best_params, estimator, foldNum, f, split, dummy, predicted,
            cm_list, train_loss, accNet, shown, saved, raised, args, foldVars>>

skVars == <<labels, test_folds, folds_for_class, yielded, train, test>>

pkVars == <<mat_keys, matContent, matrix, mat_file, printed>>

notGI == <<azVars, g3Vars, nbVars, skVars, pkVars>>

notAZ == <<giVars, g3Vars, nbVars, skVars, pkVars>>

notG3 == <<azVars, nbVars, skVars, pkVars, normalize, augment, pca, edgeless, feat_array_temp,
           temp_interp, c, i, images>>

notSK == <<locs, features, n_gridpoints, normalize, augment, pca, edgeless,
           nElectrodes, n_colors, n_samples, feat_array_temp, temp_interp, c, i,
           images, azVars, g3Vars, nbVars, pkVars>>

notPK == <<locs, features, n_gridpoints, normalize, augment, pca, edgeless,
           nElectrodes, n_colors, n_samples, feat_array_temp, temp_interp, c, i,
           images, azVars, g3Vars, nbVars, skVars>>

notNB == <<locs, features, n_gridpoints, normalize, augment, pca, edgeless,
           nElectrodes, n_colors, n_samples, feat_array_temp, temp_interp, c, i,
           images, azVars, g3Vars, skVars, pkVars>>

\* ----------------------------------------------------------- array helpers
None == <<>>

ZeroBased(seq) == [j \in 0..(Len(seq) - 1) |-> seq[j + 1]]

Size(arr) == Cardinality(DOMAIN arr)

Min(S) == CHOOSE x \in S : \A y \in S : x <= y

Max(S) == CHOOSE x \in S : \A y \in S : x >= y

RECURSIVE SumSeq(_)
SumSeq(s) == IF s = <<>> THEN 0 ELSE Head(s) + SumSeq(Tail(s))

RECURSIVE SumSqSeq(_)
SumSqSeq(s) == IF s = <<>> THEN 0 ELSE Head(s) * Head(s) + SumSqSeq(Tail(s))

\* ------------------------------------------------------------ pixel values
NaN == <<0, 0>>

Num(x) == <<x, 1>>

isnan(v) == v[2] = 0

\* np.nan_to_num on one value: NaN becomes 0, a number is kept
nan_to_num(v) == IF isnan(v) THEN Num(0) ELSE v

\* a / b of two Python ints is a float; int(x) and range(x) look at the type
TrueDiv(a, b) == <<"float", a \div b>>

int(x) == x[2]

RangeAccepts(x) == x[1] = "int"

\* ------------------------------------------------------------------ inputs
\* electrode layouts: locs[j] is the (X, Y) position of electrode j
Layouts ==
  { ZeroBased(<< <<0, 0>>, <<2, 0>>, <<0, 2>> >>),
    ZeroBased(<< <<2, 2>>, <<0, 2>>, <<2, 0>> >>),
    ZeroBased(<< <<1, 1>>, <<0, 0>>, <<1, 0>>, <<0, 1>> >>),
    ZeroBased(<< <<1, 1>>, <<1, 0>>, <<0, 1>>, <<2, 1>>, <<1, 2>> >>) }

FeaturePatterns == {"index", "column", "sample", "const", "mixed"}

Cell(pat, s, j, m) ==
  CASE pat = "index"  -> s * m + j + 1
    [] pat = "column" -> j
    [] pat = "sample" -> s + 1
    [] pat = "const"  -> 1
    [] pat = "mixed"  -> ((s + 1) * (j + 2)) % 3

FeatureMatrix(pat, n, m) ==
  [s \in 0..(n - 1) |-> [j \in 0..(m - 1) |-> Cell(pat, s, j, m)]]

\* ---------------------------------------------------------------- geometry
\* np.mgrid[lo:hi:n*1j] is linspace(lo, hi, n); coordinates are kept
\* multiplied by GridScale(n) so that every grid point is an integer pair.
GridScale(n) == IF n > 1 THEN n - 1 ELSE 1

Xs(l) == {l[j][1] : j \in DOMAIN l}

Ys(l) == {l[j][2] : j \in DOMAIN l}

GridPoint(l, n, a, b) ==
  << Min(Xs(l)) * GridScale(n) + a * (Max(Xs(l)) - Min(Xs(l))),
     Min(Ys(l)) * GridScale(n) + b * (Max(Ys(l)) - Min(Ys(l))) >>

Scaled(p, n) == <<p[1] * GridScale(n), p[2] * GridScale(n)>>

Orient(p, q, r) == (q[1] - p[1]) * (r[2] - p[2]) - (q[2] - p[2]) * (r[1] - p[1])

InTriangle(p, t1, t2, t3) ==
  LET d1 == Orient(t1, t2, p)
      d2 == Orient(t2, t3, p)
      d3 == Orient(t3, t1, p)
  IN  /\ Orient(t1, t2, t3) # 0
      /\ ~((d1 < 0 \/ d2 < 0 \/ d3 < 0) /\ (d1 > 0 \/ d2 > 0 \/ d3 > 0))

\* p lies in the convex hull of the points (the union of their triangles)
InHull(l, p) ==
  \E j1 \in DOMAIN l, j2 \in DOMAIN l, j3 \in DOMAIN l :
     InTriangle(p, l[j1], l[j2], l[j3])

ElectrodeAt(l, n, p) == {j \in DOMAIN l : Scaled(l[j], n) = p}

\* scipy.interpolate.griddata(points, values, (grid_x, grid_y), 'cubic',
\* fill_value=nan): NaN outside the convex hull of the points, and the
\* interpolant takes the value of electrode j at the position of electrode j.
griddata(l, values, n) ==
  [a \in 0..(n - 1) |-> [b \in 0..(n - 1) |->
     LET p == GridPoint(l, n, a, b)
     IN  IF ~InHull([j \in DOMAIN l |-> Scaled(l[j], n)], p)
         THEN NaN
         ELSE Num(values[CHOOSE j \in ElectrodeAt(l, n, p) : TRUE])]]

\* the inputs on which griddata and scale are defined here: every grid point
\* inside the hull is an electrode position, and some grid point is inside
ValidInput(l, n) ==
  LET sl == [j \in DOMAIN l |-> Scaled(l[j], n)]
      inside == {ab \in (0..(n - 1)) \X (0..(n - 1)) :
                   InHull(sl, GridPoint(l, n, ab[1], ab[2]))}
  IN  /\ inside # {}
      /\ \A ab \in inside : ElectrodeAt(l, n, GridPoint(l, n, ab[1], ab[2])) # {}

\* ------------------------------------------------------------- augment_EEG
NoiseSeeds == 0..2

Draw(seed, s, col) == ((seed + s + 2 * col) % 3) - 1

Column(data, col) == {data[s][col] : s \in DOMAIN data}

\* the pca=False branch: every feature column gets noise of standard
\* deviation stdMult * std(column), which is no noise for a constant column
augment_EEG(data, seed) ==
  [s \in DOMAIN data |-> [col \in DOMAIN data[s] |->
     data[s][col] + (IF Cardinality(Column(data, col)) = 1 THEN 0 ELSE Draw(seed, s, col))]]

\* --------------------------------------------------------------- gen_images
\* mutant: the columns of one electrode taken as adjacent (interleaved bands)
SplitBandsInterleaved(feat, nE, k) ==
  [cc \in 0..(k - 1) |-> [s \in DOMAIN feat |-> [j \in 0..(nE - 1) |->
     feat[s][j * k + cc]]]]

SplitBands(feat, nE, k) ==
  [cc \in 0..(k - 1) |-> [s \in DOMAIN feat |-> [j \in 0..(nE - 1) |->
     feat[s][cc * nE + j]]]]

Zeros(n, g) == [s \in 0..(n - 1) |-> [a \in 0..(g - 1) |-> [b \in 0..(g - 1) |-> Num(0)]]]

\* the pixels of one band in the order of a boolean-mask selection (C order)
FlatAt(band, g, n) == band[n \div (g * g)][(n % (g * g)) \div g][n % g]

RECURSIVE Masked(_, _, _)
Masked(band, g, n) ==
  IF n = 0 THEN <<>>
  ELSE LET v == FlatAt(band, g, n - 1)
       IN  IF isnan(v) THEN Masked(band, g, n - 1)
           ELSE Append(Masked(band, g, n - 1), v[1])

\* sklearn.preprocessing.scale on a 1-D array: (x - mean) / std with the
\* population std, a zero std being replaced by 1
scale(xs) ==
  LET N == Len(xs)
      S == SumSeq(xs)
      D == N * SumSqSeq(xs) - S * S
  IN  [n \in 1..N |-> IF D = 0 THEN Num(0) ELSE <<N * xs[n] - S, D>>]

\* mutant: every sample standardised with its own mean and std
NormalizeBandPerSample(band, g) ==
  [s \in DOMAIN band |->
     LET one == [t \in {0} |-> band[s]]
         z == scale(Masked(one, g, g * g))
     IN  [a \in 0..(g - 1) |-> [b \in 0..(g - 1) |->
            IF isnan(band[s][a][b]) THEN NaN
            ELSE z[Len(Masked(one, g, a * g + b)) + 1]]]]

NormalizeBand(band, g) ==
  LET total == Size(band) * g * g
      z == scale(Masked(band, g, total))
  IN  [s \in DOMAIN band |-> [a \in 0..(g - 1) |-> [b \in 0..(g - 1) |->
         IF isnan(band[s][a][b]) THEN NaN
         ELSE z[Len(Masked(band, g, s * g * g + a * g + b)) + 1]]]]

NanToNumBand(band) ==
  [s \in DOMAIN band |-> [a \in DOMAIN band[s] |-> [b \in DOMAIN band[s][a] |->
     nan_to_num(band[s][a][b])]]]

\* mutant: the list of bands returned without the swap
NoSwapAxes(t, n) == t

\* np.swapaxes(np.asarray(temp_interp), 0, 1)
SwapAxes01(t, n) == [s \in 0..(n - 1) |-> [cc \in DOMAIN t |-> t[cc][s]]]

Corners(l) ==
  << <<Min(Xs(l)), Min(Ys(l))>>, <<Min(Xs(l)), Max(Ys(l))>>,
     <<Max(Xs(l)), Min(Ys(l))>>, <<Max(Xs(l)), Max(Ys(l))>> >>

AppendCorners(l) ==
  [j \in 0..(Size(l) + 3) |-> IF j < Size(l) THEN l[j] ELSE Corners(l)[j - Size(l) + 1]]

\* ------------------------------------------------- EEG_1D_CNN: create_model
epochs == 30

\* a Keras model: its layers, what it was compiled with, whether fit has run
\* on it, and the fold it was built in
NoModel ==
  [bound |-> FALSE, layers |-> <<>>, init_mode |-> "", activation |-> "",
   dropout_rate |-> "", compiled |-> FALSE, loss |-> "", opt |-> "",
   learning_rate |-> <<"", 0>>, fitted |-> FALSE, fold |-> -1]

\* lines 190-213
Sequential(init_mode, activation, dropout_rate) ==
  [NoModel EXCEPT
     !.bound = TRUE,
     !.layers = <<"Conv1D", "AveragePooling1D", "Conv1D", "AveragePooling1D",
                  "Conv1D", "AveragePooling1D", "Flatten", "BatchNormalization",
                  "Dense", "Dropout", "Dense", "Activation">>,
     !.init_mode = init_mode,
     !.activation = activation,
     !.dropout_rate = dropout_rate]

compile(model, loss, opt, rate) ==
  [model EXCEPT !.compiled = TRUE, !.loss = loss, !.opt = opt, !.learning_rate = rate]

\* lines 188-226; learn_rate / 10 ** n is kept as <<learn_rate, n>>
create_model(init_mode, activation, dropout_rate, optimizer, learn_rate) ==
  LET model == Sequential(init_mode, activation, dropout_rate)
  IN  IF optimizer = "SGD"
      THEN compile(model, "binary_crossentropy", "SGD", <<learn_rate, epochs>>)
      ELSE IF optimizer = "Adam"
      THEN compile(model, "categorical_crossentropy", "Adam", <<learn_rate, 0>>)
      ELSE IF optimizer = "RMSprop"
      THEN compile(model, "binary_crossentropy", "RMSprop", <<learn_rate, 0>>)
      ELSE model

NoParams ==
  [kind |-> "unbound", init_mode |-> "", activation |-> "", dropout_rate |-> "",
   optimizer |-> "", learn_rate |-> ""]

NoArgs == [NoParams EXCEPT !.kind = "none"]

KF_Idle ==
  /\ precisionNet = <<>> /\ recallNet = <<>>
  /\ f1_MacroNet = <<>> /\ f1_weightedNet = <<>>
  /\ val_loss = <<>> /\ train_accuracy = <<>> /\ val_accuracy = <<>>

NB_Idle ==
  /\ KF_Idle
  /\ names = {}
  /\ best_params = NoParams
  /\ estimator = NoModel
  /\ foldNum = 0
  /\ f = 0
  /\ split = 0
  /\ dummy = -1
  /\ predicted = -1
  /\ cm_list = <<>>
  /\ train_loss = <<>>
  /\ accNet = <<>>
  /\ shown = <<>>
  /\ saved = FALSE
  /\ raised = <<>>
  /\ args = NoArgs

GI_Idle ==
  /\ locs = None /\ features = None /\ n_gridpoints = 0
  /\ normalize = FALSE /\ augment = FALSE /\ pca = FALSE /\ edgeless = FALSE
  /\ nElectrodes = 0 /\ n_colors = None /\ n_samples = 0
  /\ feat_array_temp = None /\ temp_interp = None /\ c = 0 /\ i = 0
  /\ images = None

AZ_Idle == locs_3d = None /\ locs_2d = None /\ e = 0

G3_Idle == images_mat = None /\ sample = 0

SK_Idle ==
  /\ labels = <<>> /\ test_folds = <<>> /\ folds_for_class = <<>>
  /\ yielded = 0 /\ train = <<>> /\ test = <<>>

NoDict == [bound |-> FALSE, keys |-> {}]

PK_Idle ==
  /\ mat_keys = {} /\ matContent = NoDict /\ matrix = 0
  /\ mat_file = "unbound" /\ printed = <<>>

\* mutant: the assertion left out
NotChecked(n, d) == TRUE

\* line 163: features.shape[1] % nElectrodes == 0
Divisible(n, d) == n % d = 0

GI_Init ==
  /\ locs \in Layouts
  /\ n_gridpoints \in 1..MaxGrid
  /\ ValidInput(locs, n_gridpoints)
  /\ \E pat \in FeaturePatterns, n \in 1..MaxSamples, m \in 1..(MaxColors * Size(locs)) :
        features = FeatureMatrix(pat, n, m)
  /\ normalize \in BOOLEAN
  /\ augment \in BOOLEAN
  /\ pca \in BOOLEAN
  /\ edgeless \in BOOLEAN
  /\ pc = "start"
  /\ nElectrodes = 0
  /\ n_colors = None
  /\ n_samples = 0
  /\ feat_array_temp = None
  /\ temp_interp = None
  /\ c = 0
  /\ i = 0
  /\ images = None
  /\ AZ_Idle
  /\ G3_Idle
  /\ SK_Idle
  /\ PK_Idle
  /\ NB_Idle

\* lines 159-164: the assertion, then n_colors
GI_Assert ==
  /\ pc = "start"
  /\ nElectrodes' = Size(locs)
  /\ IF Divisible(Size(features[0]), Size(locs))
     THEN /\ n_colors' = TrueDiv(Size(features[0]), Size(locs))
          /\ pc' = "split"
     ELSE /\ n_colors' = n_colors
          /\ pc' = "AssertionError"
  /\ UNCHANGED <<locs, features, n_gridpoints, normalize, augment, pca, edgeless,
                 n_samples, feat_array_temp, temp_interp, c, i, images>>
  /\ UNCHANGED notGI

\* lines 165-166
GI_Split ==
  /\ pc = "split"
  /\ feat_array_temp' = SplitBands(features, nElectrodes, int(n_colors))
  /\ c' = 0
  /\ pc' = IF augment THEN "augment" ELSE "grid"
  /\ UNCHANGED <<locs, features, n_gridpoints, normalize, augment, pca, edgeless,
                 nElectrodes, n_colors, n_samples, temp_interp, i, images>>
  /\ UNCHANGED notGI

\* lines 169-171 and 122-124: augment_EEG(pca=True) names PCA, which no cell imports
GI_AugmentPCA ==
  /\ pc = "augment"
  /\ pca
  /\ pc' = "NameError"
  /\ UNCHANGED <<locs, features, n_gridpoints, normalize, augment, pca, edgeless,
                 nElectrodes, n_colors, n_samples, feat_array_temp, temp_interp,
                 c, i, images>>
  /\ UNCHANGED notGI

\* lines 172-174: one band per step
GI_AugmentNoise ==
  /\ pc = "augment"
  /\ ~pca
  /\ \E seed \in NoiseSeeds :
        feat_array_temp' = [feat_array_temp EXCEPT ![c] = augment_EEG(@, seed)]
  /\ IF c + 1 < int(n_colors)
     THEN c' = c + 1 /\ pc' = pc
     ELSE c' = 0 /\ pc' = "grid"
  /\ UNCHANGED <<locs, features, n_gridpoints, normalize, augment, pca, edgeless,
                 nElectrodes, n_colors, n_samples, temp_interp, i, images>>
  /\ UNCHANGED notGI

\* lines 175-184
GI_Grid ==
  /\ pc = "grid"
  /\ n_samples' = Size(features)
  /\ temp_interp' = [cc \in 0..(int(n_colors) - 1) |-> Zeros(Size(features), n_gridpoints)]
  /\ c' = 0
  /\ i' = 0
  /\ pc' = IF edgeless THEN "edgeless" ELSE "interp"
  /\ UNCHANGED <<locs, features, n_gridpoints, normalize, augment, pca, edgeless,
                 nElectrodes, n_colors, feat_array_temp, images>>
  /\ UNCHANGED notGI

\* lines 187-192: the corners are appended to locs, then range(n_colors) is
\* given the float n_colors
GI_Edgeless ==
  /\ pc = "edgeless"
  /\ locs' = AppendCorners(locs)
  /\ IF RangeAccepts(n_colors)
     THEN /\ feat_array_temp' =
               [cc \in DOMAIN feat_array_temp |-> [s \in DOMAIN feat_array_temp[cc] |->
                  [j \in 0..(nElectrodes + 3) |->
                     IF j < nElectrodes THEN feat_array_temp[cc][s][j] ELSE 0]]]
          /\ pc' = "interp"
     ELSE /\ feat_array_temp' = feat_array_temp
          /\ pc' = "TypeError"
  /\ UNCHANGED <<features, n_gridpoints, normalize, augment, pca, edgeless,
                 nElectrodes, n_colors, n_samples, temp_interp, c, i, images>>
  /\ UNCHANGED notGI

\* lines 195-198: one griddata call per step, bands in the inner loop;
\* line 203 deletes feat_array_temp after the last one
GI_Interp ==
  /\ pc = "interp"
  /\ temp_interp' = [temp_interp EXCEPT ![c][i] =
                        griddata(locs, feat_array_temp[c][i], n_gridpoints)]
  /\ IF c + 1 < int(n_colors)
     THEN /\ c' = c + 1 /\ i' = i /\ pc' = pc
          /\ feat_array_temp' = feat_array_temp
     ELSE IF i + 1 < n_samples
          THEN /\ c' = 0 /\ i' = i + 1 /\ pc' = pc
               /\ feat_array_temp' = feat_array_temp
          ELSE /\ c' = 0 /\ i' = i /\ pc' = "normalize"
               /\ feat_array_temp' = None
  /\ UNCHANGED <<locs, features, n_gridpoints, normalize, augment, pca, edgeless,
                 nElectrodes, n_colors, n_samples, images>>
  /\ UNCHANGED notGI

\* lines 205-210: one band per step
GI_Normalize ==
  /\ pc = "normalize"
  /\ temp_interp' = [temp_interp EXCEPT ![c] =
        NanToNumBand(IF normalize THEN NormalizeBand(@, n_gridpoints) ELSE @)]
  /\ IF c + 1 < int(n_colors)
     THEN c' = c + 1 /\ pc' = pc
     ELSE c' = c /\ pc' = "return"
  /\ UNCHANGED <<locs, features, n_gridpoints, normalize, augment, pca, edgeless,
                 nElectrodes, n_colors, n_samples, feat_array_temp, i, images>>
  /\ UNCHANGED notGI

\* line 211
GI_Return ==
  /\ pc = "return"
  /\ images' = SwapAxes01(temp_interp, n_samples)
  /\ pc' = "done"
  /\ UNCHANGED <<locs, features, n_gridpoints, normalize, augment, pca, edgeless,
                 nElectrodes, n_colors, n_samples, feat_array_temp, temp_interp, c, i>>
  /\ UNCHANGED notGI

GI_Next ==
  \/ GI_Assert
  \/ GI_Split
  \/ GI_AugmentPCA
  \/ GI_AugmentNoise
  \/ GI_Grid
  \/ GI_Edgeless
  \/ GI_Interp
  \/ GI_Normalize
  \/ GI_Return

vars == <<giVars, azVars, g3Vars, nbVars, skVars, pkVars>>

Init == GI_Init

Next == GI_Next

Spec == Init /\ [][Next]_vars

\* ---------------------------------------------------------------- azim_proj
\* Reals of the projection, kept exactly.  A length is the pair
\* <<sign, square>>; an angle is the direction <<sy, sx, qy, qx>> of the
\* vector (sx * sqrt(qx), sy * sqrt(qy)) with qy : qx in lowest terms.
RECURSIVE Gcd(_, _)
Gcd(a, b) == IF b = 0 THEN a ELSE Gcd(b, a % b)

Sgn(x) == IF x > 0 THEN 1 ELSE IF x < 0 THEN -1 ELSE 0

Real(x) == <<Sgn(x), x * x>>

\* m.sqrt(n)
sqrt(n) == <<Sgn(n), n>>

\* m.atan2(y, x); atan2(0, 0) is 0
atan2(y, x) ==
  IF y[2] = 0 /\ x[2] = 0 THEN <<0, 1, 0, 1>>
  ELSE LET g == Gcd(y[2], x[2])
       IN  <<y[1], x[1], y[2] \div g, x[2] \div g>>

\* m.pi / 2 - a, for an angle a in [-pi/2, pi/2]: sine and cosine change places
PiHalfMinus(a) == <<a[2], a[1], a[4], a[3]>>

ZeroAngle == <<0, 1, 0, 1>>

\* mutant: the elevation taken against x**2 + y**2 instead of its root
cart2sphNoRoot(x, y, z) ==
  LET x2_y2 == x * x + y * y
  IN  <<sqrt(x2_y2 + z * z), atan2(Real(z), Real(x2_y2)), atan2(Real(y), Real(x))>>

\* lines 74-86: radius, elevation, azimuth
cart2sph(x, y, z) ==
  LET x2_y2 == x * x + y * y
  IN  <<sqrt(x2_y2 + z * z), atan2(Real(z), sqrt(x2_y2)), atan2(Real(y), Real(x))>>

\* lines 89-96: (rho * cos(theta), rho * sin(theta)), the point at distance
\* rho in the direction theta; at distance 0 it is the origin for every theta
pol2cart(theta, rho) ==
  IF rho = ZeroAngle THEN [rho |-> ZeroAngle, theta |-> ZeroAngle]
  ELSE [rho |-> rho, theta |-> theta]

Origin == pol2cart(ZeroAngle, ZeroAngle)

\* lines 99-111
azim_proj(pos) ==
  LET sph == cart2sph(pos[1], pos[2], pos[3])
  IN  pol2cart(sph[3], PiHalfMinus(sph[2]))

Coords == (-MaxCoord)..MaxCoord

Points3d == Coords \X Coords \X Coords

\* lines 269-271: two electrodes with any coordinates
AZ_Init ==
  /\ locs_3d \in Points3d \X Points3d
  /\ locs_2d = <<>>
  /\ e = 0
  /\ pc = "main"
  /\ GI_Idle
  /\ G3_Idle
  /\ SK_Idle
  /\ PK_Idle
  /\ NB_Idle

\* lines 273-274: for e in locs_3d: locs_2d.append(azim_proj(e))
AZ_Project ==
  /\ pc = "main"
  /\ e < Len(locs_3d)
  /\ locs_2d' = Append(locs_2d, azim_proj(locs_3d[e + 1]))
  /\ e' = e + 1
  /\ UNCHANGED locs_3d
  /\ UNCHANGED notAZ

AZ_Next == AZ_Project

SpecAzim == AZ_Init /\ [][AZ_Next]_vars

\* ------------------------------------------------------------ gen_images_3d
\* gen_images as one call with augment=False and edgeless=False
gen_images(l, feat, g, norm) ==
  LET nE == Size(l)
      k == int(TrueDiv(Size(feat[0]), nE))
      bands == SplitBands(feat, nE, k)
      interp == [cc \in 0..(k - 1) |-> [s \in DOMAIN feat |-> griddata(l, bands[cc][s], g)]]
      normed == [cc \in 0..(k - 1) |->
                   NanToNumBand(IF norm THEN NormalizeBand(interp[cc], g) ELSE interp[cc])]
  IN  SwapAxes01(normed, Size(feat))

\* An ndarray whose first axis may be empty: its shape and its rows
Array(shape, rows) == [shape |-> shape, data |-> rows]

Shape4(t) == <<Size(t), Size(t[0]), Size(t[0][0]), Size(t[0][0][0])>>

\* mutant: the new block put in front of the tensor
ConcatenateFront(A, t) ==
  Array(<<A.shape[1] + 1>> \o Shape4(t),
        [n \in 0..A.shape[1] |-> IF n = 0 THEN t ELSE A.data[n - 1]])

\* line 231-232: np.concatenate((images_mat, np.expand_dims(t, axis=0)), axis=0)
Concatenate(A, t) ==
  Array(<<A.shape[1] + 1>> \o Shape4(t),
        [n \in 0..A.shape[1] |-> IF n < A.shape[1] THEN A.data[n] ELSE t])

Features3d(pat, n, len, m) ==
  Array(<<n, len, m>>,
        [s \in 0..(n - 1) |-> [t \in 0..(len - 1) |-> [j \in 0..(m - 1) |->
           Cell(pat, s * len + t, j, m)]]])

G3_Init ==
  /\ locs \in Layouts
  /\ n_gridpoints \in 1..MaxGrid
  /\ ValidInput(locs, n_gridpoints)
  /\ \E pat \in FeaturePatterns, n \in 0..MaxSamples, len \in 1..MaxLength,
        m \in 1..(MaxColors * Size(locs)) :
        features = Features3d(pat, n, len, m)
  /\ normalize \in BOOLEAN
  /\ augment = FALSE /\ pca = FALSE /\ edgeless = FALSE
  /\ pc = "start3"
  /\ nElectrodes = 0 /\ n_colors = None /\ n_samples = 0
  /\ feat_array_temp = None /\ temp_interp = None /\ c = 0 /\ i = 0
  /\ images = None
  /\ AZ_Idle
  /\ NB_Idle
  /\ SK_Idle
  /\ PK_Idle
  /\ images_mat = None
  /\ sample = 0

\* lines 220-226
G3_Assert ==
  /\ pc = "start3"
  /\ n_samples' = features.shape[1]
  /\ nElectrodes' = Size(locs)
  /\ IF Divisible(features.shape[3], Size(locs))
     THEN /\ n_colors' = TrueDiv(features.shape[3], Size(locs))
          /\ images_mat' = Array(<<0, features.shape[2], int(n_colors'),
                                   n_gridpoints, n_gridpoints>>, <<>>)
          /\ pc' = "loop3"
     ELSE /\ n_colors' = n_colors
          /\ images_mat' = images_mat
          /\ pc' = "AssertionError"
  /\ sample' = 0
  /\ UNCHANGED <<locs, features, n_gridpoints>>
  /\ UNCHANGED notG3

\* lines 227-232: one sample per step, always with normalize=True
G3_Sample ==
  /\ pc = "loop3"
  /\ sample < n_samples
  /\ LET feature_split == features.data[sample]
         temp_images_mat == gen_images(locs, feature_split, n_gridpoints, TRUE)
     IN  IF Shape4(temp_images_mat) = Tail(images_mat.shape)
         THEN /\ images_mat' = Concatenate(images_mat, temp_images_mat)
              /\ sample' = sample + 1
              /\ pc' = pc
         ELSE /\ images_mat' = images_mat
              /\ sample' = sample
              /\ pc' = "ValueError"
  /\ UNCHANGED <<locs, features, n_gridpoints, nElectrodes, n_colors, n_samples>>
  /\ UNCHANGED notG3

\* line 234
G3_Return ==
  /\ pc = "loop3"
  /\ sample = n_samples
  /\ pc' = "done3"
  /\ UNCHANGED <<locs, features, n_gridpoints, nElectrodes, n_colors, n_samples,
                 images_mat, sample>>
  /\ UNCHANGED notG3

G3_Next ==
  \/ G3_Assert
  \/ G3_Sample
  \/ G3_Return

SpecGen3d == G3_Init /\ [][G3_Next]_vars

\* The steps of gen_images and the one-call form used by gen_images_3d agree
\* (a check of the model, not a claim).
GI_AgreesWithCall ==
  (pc = "done" /\ ~augment) =>
     images = gen_images(locs, features, n_gridpoints, normalize)

\* ------------------------------------------------- create_model, one call
\* lines 341-354 and 311: the values the notebook names for each argument
Optimizers == {"SGD", "RMSprop", "Adagrad", "Adadelta", "Adam", "Adamax", "Nadam"}

GridOptimizers == {"SGD", "Adam", "RMSprop"}

InitModes == {"he_normal", "he_uniform"}

Activations == {"relu", "tanh"}

DropoutRates == {"0.3", "0.4", "0.5"}

LearnRates == {"0.0001", "0.001", "0.01"}

CM_Init ==
  /\ \E o \in Optimizers, im \in InitModes, a \in Activations \cup {"sigmoid"},
        dr \in DropoutRates, lr \in LearnRates :
        args = [kind |-> "call", init_mode |-> im, activation |-> a,
                dropout_rate |-> dr, optimizer |-> o, learn_rate |-> lr]
  /\ pc = "call"
  /\ names = {"X"}
  /\ best_params = NoParams
  /\ estimator = NoModel
  /\ foldNum = 0 /\ f = 0 /\ split = 0 /\ dummy = -1 /\ predicted = -1
  /\ cm_list = <<>> /\ train_loss = <<>> /\ accNet = <<>>
  /\ shown = <<>> /\ saved = FALSE /\ raised = <<>>
  /\ KF_Idle
  /\ GI_Idle
  /\ AZ_Idle
  /\ G3_Idle
  /\ SK_Idle
  /\ PK_Idle

\* estimator = create_model(...)
CM_Call ==
  /\ pc = "call"
  /\ estimator' = create_model(args.init_mode, args.activation, args.dropout_rate,
                               args.optimizer, args.learn_rate)
  /\ pc' = "returned"
  /\ UNCHANGED <<names, best_params, foldNum, f, split, dummy, predicted,
                 cm_list, train_loss, accNet, shown, saved, raised, args>>
  /\ UNCHANGED foldVars
  /\ UNCHANGED notNB

CM_Next == CM_Call

SpecModel == CM_Init /\ [][CM_Next]_vars

\* ------------------------------------------- EEG_1D_CNN: the cells, in order
\* Every code cell is run once, top to bottom.  A cell that raises is left at
\* the statement that raised and the next cell is run.  What a call does with
\* the data files and the array shapes they hold is not modelled: loadmat,
\* reshape, StandardScaler.fit, the fold indexing, savefig and savemat either
\* succeed or raise.
n_splits == 5

FoldNumGrid == 10

\* mutant: one entry too few in the per-fold arrays
FoldNumShort == n_splits - 1

\* line 411
FoldNumKFold == 5

Bound(n) == n \in names

Raise(cell, exception) == Append(raised, <<cell, exception>>)

\* mutant: predict_classes called before fit
FoldBodyPredictFirst ==
  <<"fold_index", "fold_create", "fold_predict", "fold_fit", "fold_metrics">>

\* lines 433-481: the statements of the loop body, in order
FoldBody ==
  <<"fold_index", "fold_create", "fold_fit", "fold_predict", "fold_metrics">>

StepAfter(step) ==
  FoldBody[(CHOOSE n \in 1..Len(FoldBody) : FoldBody[n] = step) + 1]

NB_Init ==
  /\ pc = "data"
  /\ NB_Idle
  /\ GI_Idle
  /\ AZ_Idle
  /\ G3_Idle
  /\ SK_Idle
  /\ PK_Idle

\* lines 101-163: load the features and labels, shuffle, one-hot labels
NB_Data ==
  /\ pc = "data"
  /\ names' = names \cup {"features", "labels"}
  /\ pc' = "params"
  /\ UNCHANGED <<best_params, estimator, foldNum, f, split, dummy, predicted,
                 cm_list, train_loss, accNet, shown, saved, raised, args>>
  /\ UNCHANGED foldVars
  /\ UNCHANGED notNB

\* line 128: sio.loadmat(dataPath) raises
NB_DataFails ==
  /\ pc = "data"
  /\ raised' = Raise("data", "FileNotFoundError")
  /\ pc' = "params"
  /\ UNCHANGED <<names, best_params, estimator, foldNum, f, split, dummy, predicted,
                 cm_list, train_loss, accNet, shown, saved, args>>
  /\ UNCHANGED foldVars
  /\ UNCHANGED notNB

\* lines 270-274: best_params is the array loadmat returns
NB_Params ==
  /\ pc = "params"
  /\ best_params' = [NoParams EXCEPT !.kind = "ndarray"]
  /\ names' = names \cup {"best_params"}
  /\ pc' = "standardize"
  /\ UNCHANGED <<estimator, foldNum, f, split, dummy, predicted,
                 cm_list, train_loss, accNet, shown, saved, raised, args>>
  /\ UNCHANGED foldVars
  /\ UNCHANGED notNB

\* line 271: sio.loadmat(mat_path) raises
NB_ParamsFails ==
  /\ pc = "params"
  /\ raised' = Raise("params", "FileNotFoundError")
  /\ pc' = "standardize"
  /\ UNCHANGED <<names, best_params, estimator, foldNum, f, split, dummy, predicted,
                 cm_list, train_loss, accNet, shown, saved, args>>
  /\ UNCHANGED foldVars
  /\ UNCHANGED notNB

\* lines 301-312: reshape, X = features, a first model
NB_Standardize ==
  /\ pc = "standardize"
  /\ Bound("features")
  /\ names' = names \cup {"X", "estimator"}
  /\ estimator' = create_model("he_normal", "sigmoid", "0.3", "Adam", "0.0001")
  /\ pc' = "grid"
  /\ UNCHANGED <<best_params, foldNum, f, split, dummy, predicted,
                 cm_list, train_loss, accNet, shown, saved, raised, args>>
  /\ UNCHANGED foldVars
  /\ UNCHANGED notNB

\* line 301: features is not bound; line 306: np.reshape raises
NB_StandardizeFails ==
  /\ pc = "standardize"
  /\ raised' = Raise("standardize", IF Bound("features") THEN "ValueError" ELSE "NameError")
  /\ pc' = "grid"
  /\ UNCHANGED <<names, best_params, estimator, foldNum, f, split, dummy, predicted,
                 cm_list, train_loss, accNet, shown, saved, args>>
  /\ UNCHANGED foldVars
  /\ UNCHANGED notNB

\* lines 323-376: the grid search over p_grid; best_params becomes the dict
\* grid_result.best_params_
NB_Grid ==
  /\ pc = "grid"
  /\ Bound("features")
  /\ foldNum' = FoldNumGrid
  /\ \E o \in GridOptimizers, im \in InitModes, a \in Activations,
        dr \in DropoutRates, lr \in LearnRates :
        best_params' = [kind |-> "dict", init_mode |-> im, activation |-> a,
                        dropout_rate |-> dr, optimizer |-> o, learn_rate |-> lr]
  /\ names' = names \cup {"X", "best_params"}
  /\ pc' = "kfold"
  /\ UNCHANGED <<estimator, f, split, dummy, predicted,
                 cm_list, train_loss, accNet, shown, saved, raised, args>>
  /\ UNCHANGED foldVars
  /\ UNCHANGED notNB

\* line 363: features is not bound; lines 366-368: scaler.fit or np.reshape
\* raises; foldNum = 10 of line 355 has been executed
NB_GridFails ==
  /\ pc = "grid"
  /\ foldNum' = FoldNumGrid
  /\ raised' = Raise("grid", IF Bound("features") THEN "ValueError" ELSE "NameError")
  /\ pc' = "kfold"
  /\ UNCHANGED <<names, best_params, estimator, f, split, dummy, predicted,
                 cm_list, train_loss, accNet, shown, saved, args>>
  /\ UNCHANGED foldVars
  /\ UNCHANGED notNB

\* lines 411-432: the counters and lists, then kfold.split(features, labels)
NB_KFold ==
  /\ pc = "kfold"
  /\ foldNum' = FoldNumKFold
  /\ f' = 0
  /\ train_loss' = <<>>
  /\ f1_MacroNet' = [n \in 0..(FoldNumKFold - 1) |-> 0]
  /\ f1_weightedNet' = [n \in 0..(FoldNumKFold - 1) |-> 0]
  /\ precisionNet' = [n \in 0..(FoldNumKFold - 1) |-> 0]
  /\ recallNet' = [n \in 0..(FoldNumKFold - 1) |-> 0]
  /\ accNet' = [n \in 0..(FoldNumKFold - 1) |-> 0]
  /\ val_loss' = <<>>
  /\ train_accuracy' = <<>>
  /\ val_accuracy' = <<>>
  /\ cm_list' = <<>>
  /\ split' = 0
  /\ names' = names \cup {"f", "cm_list"}
  /\ IF Bound("features")
     THEN pc' = FoldBody[1] /\ raised' = raised
     ELSE pc' = "visualise" /\ raised' = Raise("kfold", "NameError")
  /\ UNCHANGED <<best_params, estimator, dummy, predicted, shown, saved, args>>
  /\ UNCHANGED notNB

\* lines 433-436: the train and test rows of this split
NB_FoldIndex ==
  /\ pc = "fold_index"
  /\ pc' = StepAfter(pc)
  /\ UNCHANGED <<names, best_params, estimator, foldNum, f, split, dummy, predicted,
                 cm_list, train_loss, accNet, shown, saved, raised, args>>
  /\ UNCHANGED foldVars
  /\ UNCHANGED notNB

\* line 433: features[train,:,:] raises
NB_FoldIndexFails ==
  /\ pc = "fold_index"
  /\ raised' = Raise("kfold", "IndexError")
  /\ pc' = "visualise"
  /\ UNCHANGED <<names, best_params, estimator, foldNum, f, split, dummy, predicted,
                 cm_list, train_loss, accNet, shown, saved, args>>
  /\ UNCHANGED foldVars
  /\ UNCHANGED notNB

\* lines 447-455: best_params.get(...) needs a dict
NB_FoldCreate ==
  /\ pc = "fold_create"
  /\ IF best_params.kind = "dict" /\ Bound("X")
     THEN /\ estimator' =
               [create_model(best_params.init_mode, best_params.activation,
                             best_params.dropout_rate, best_params.optimizer,
                             best_params.learn_rate) EXCEPT !.fold = split]
          /\ names' = names \cup {"estimator"}
          /\ pc' = StepAfter(pc)
          /\ raised' = raised
     ELSE /\ estimator' = estimator
          /\ names' = names
          /\ pc' = "visualise"
          /\ raised' = Raise("kfold", IF best_params.kind = "ndarray"
                                      THEN "AttributeError" ELSE "NameError")
  /\ UNCHANGED <<best_params, foldNum, f, split, dummy, predicted,
                 cm_list, train_loss, accNet, shown, saved, args>>
  /\ UNCHANGED foldVars
  /\ UNCHANGED notNB

\* lines 456-460: fit needs a compiled model
NB_FoldFit ==
  /\ pc = "fold_fit"
  /\ IF estimator.compiled
     THEN /\ estimator' = [estimator EXCEPT !.fitted = TRUE]
          /\ dummy' = split
          /\ pc' = StepAfter(pc)
          /\ raised' = raised
     ELSE /\ estimator' = estimator
          /\ dummy' = dummy
          /\ pc' = "visualise"
          /\ raised' = Raise("kfold", "RuntimeError")
  /\ UNCHANGED <<names, best_params, foldNum, f, split, predicted,
                 cm_list, train_loss, accNet, shown, saved, args>>
  /\ UNCHANGED foldVars
  /\ UNCHANGED notNB

\* line 462
NB_FoldPredict ==
  /\ pc = "fold_predict"
  /\ predicted' = split
  /\ pc' = StepAfter(pc)
  /\ UNCHANGED <<names, best_params, estimator, foldNum, f, split, dummy,
                 cm_list, train_loss, accNet, shown, saved, raised, args>>
  /\ UNCHANGED foldVars
  /\ UNCHANGED notNB

\* line 462: predict_classes is absent from the installed Keras, or raises
NB_FoldPredictFails ==
  /\ pc = "fold_predict"
  /\ raised' = Raise("kfold", "AttributeError")
  /\ pc' = "visualise"
  /\ UNCHANGED <<names, best_params, estimator, foldNum, f, split, dummy, predicted,
                 cm_list, train_loss, accNet, shown, saved, args>>
  /\ UNCHANGED foldVars
  /\ UNCHANGED notNB

\* lines 463-481, and the next split of line 432
NB_FoldMetrics ==
  /\ pc = "fold_metrics"
  /\ cm_list' = Append(cm_list, predicted)
  /\ IF f \in DOMAIN accNet
     THEN /\ precisionNet' = [precisionNet EXCEPT ![f] = @ + 1]
          /\ recallNet' = [recallNet EXCEPT ![f] = @ + 1]
          /\ f1_MacroNet' = [f1_MacroNet EXCEPT ![f] = @ + 1]
          /\ f1_weightedNet' = [f1_weightedNet EXCEPT ![f] = @ + 1]
          /\ accNet' = [accNet EXCEPT ![f] = @ + 1]
          /\ f' = f + 1
          /\ train_loss' = Append(train_loss, dummy)
          /\ val_loss' = Append(val_loss, dummy)
          /\ train_accuracy' = Append(train_accuracy, dummy)
          /\ val_accuracy' = Append(val_accuracy, dummy)
          /\ split' = split + 1
          /\ pc' = IF split + 1 < n_splits THEN FoldBody[1] ELSE "stats"
          /\ raised' = raised
     ELSE /\ UNCHANGED <<accNet, f, train_loss, split, foldVars>>
          /\ pc' = "visualise"
          /\ raised' = Raise("kfold", "IndexError")
  /\ UNCHANGED <<names, best_params, estimator, foldNum, dummy, predicted,
                 shown, saved, args>>
  /\ UNCHANGED notNB

\* lines 484-496: the mean and std curves over the folds
NB_Stats ==
  /\ pc = "stats"
  /\ names' = names \cup {"train_loss_mlist"}
  /\ pc' = "visualise"
  /\ UNCHANGED <<best_params, estimator, foldNum, f, split, dummy, predicted,
                 cm_list, train_loss, accNet, shown, saved, raised, args>>
  /\ UNCHANGED foldVars
  /\ UNCHANGED notNB

\* lines 532-563: the loss and accuracy curves; line 535 reads train_loss_mlist
NB_Visualise ==
  /\ pc = "visualise"
  /\ IF Bound("train_loss_mlist")
     THEN /\ shown' = Append(shown, "curves")
          /\ pc' = "conf_mat"
          /\ raised' = raised
     ELSE /\ shown' = shown
          /\ pc' = "end"
          /\ raised' = Raise("visualise", "NameError")
  /\ UNCHANGED <<names, best_params, estimator, foldNum, f, split, dummy, predicted,
                 cm_list, train_loss, accNet, saved, args>>
  /\ UNCHANGED foldVars
  /\ UNCHANGED notNB

\* lines 566-576: the confusion-matrix figure, saved and shown
NB_ConfMat ==
  /\ pc = "conf_mat"
  /\ shown' = Append(shown, "conf_mat")
  /\ names' = names \cup {"conf_mat"}
  /\ pc' = "save"
  /\ UNCHANGED <<best_params, estimator, foldNum, f, split, dummy, predicted,
                 cm_list, train_loss, accNet, saved, raised, args>>
  /\ UNCHANGED foldVars
  /\ UNCHANGED notNB

\* line 575: savefig raises
NB_ConfMatFails ==
  /\ pc = "conf_mat"
  /\ raised' = Raise("visualise", "FileNotFoundError")
  /\ names' = names \cup {"conf_mat"}
  /\ pc' = "end"
  /\ UNCHANGED <<best_params, estimator, foldNum, f, split, dummy, predicted,
                 cm_list, train_loss, accNet, shown, saved, args>>
  /\ UNCHANGED foldVars
  /\ UNCHANGED notNB

\* lines 578-591: sio.savemat(filename, ...)
NB_Save ==
  /\ pc = "save"
  /\ saved' = TRUE
  /\ pc' = "end"
  /\ UNCHANGED <<names, best_params, estimator, foldNum, f, split, dummy, predicted,
                 cm_list, train_loss, accNet, shown, raised, args>>
  /\ UNCHANGED foldVars
  /\ UNCHANGED notNB

\* line 583: savemat raises
NB_SaveFails ==
  /\ pc = "save"
  /\ raised' = Raise("visualise", "FileNotFoundError")
  /\ pc' = "end"
  /\ UNCHANGED <<names, best_params, estimator, foldNum, f, split, dummy, predicted,
                 cm_list, train_loss, accNet, shown, saved, args>>
  /\ UNCHANGED foldVars
  /\ UNCHANGED notNB

NB_Next ==
  \/ NB_Data
  \/ NB_DataFails
  \/ NB_Params
  \/ NB_ParamsFails
  \/ NB_Standardize
  \/ NB_StandardizeFails
  \/ NB_Grid
  \/ NB_GridFails
  \/ NB_KFold
  \/ NB_FoldIndex
  \/ NB_FoldIndexFails
  \/ NB_FoldCreate
  \/ NB_FoldFit
  \/ NB_FoldPredict
  \/ NB_FoldPredictFails
  \/ NB_FoldMetrics
  \/ NB_Stats
  \/ NB_Visualise
  \/ NB_ConfMat
  \/ NB_ConfMatFails
  \/ NB_Save
  \/ NB_SaveFails

SpecTrain == NB_Init /\ [][NB_Next]_vars

\* ------------------------------------ kfold.split(features, labels), line 432
\* StratifiedKFold(n_splits=5, random_state=100, shuffle=True) of line 427, as
\* scikit-learn computes it (_make_test_folds): the classes are numbered by
\* first appearance, the sorted labels are dealt to the folds in turn, and
\* within each class the folds are handed to its samples in a shuffled order.
\* The order the seeded generator produces is not modelled: any order.
Classes == {0, 1}

LabelVectors == UNION {[0..(n - 1) -> Classes] : n \in 0..MaxLabels}

\* np.unique(y, return_index, return_inverse): the class of sample j
y_encoded(y, j) ==
  LET first(v) == Min({m \in DOMAIN y : y[m] = v})
  IN  Cardinality({v \in {y[m] : m \in DOMAIN y} : first(v) < first(y[j])})

n_classes(y) == Cardinality({y[m] : m \in DOMAIN y})

y_counts(y, k) == Cardinality({m \in DOMAIN y : y_encoded(y, m) = k})

\* np.sort(y_encoded): the class at a position of the sorted labels
y_order(y, pos) ==
  CHOOSE k \in 0..(n_classes(y) - 1) :
     LET before == Cardinality({m \in DOMAIN y : y_encoded(y, m) < k})
     IN  before <= pos /\ pos < before + y_counts(y, k)

\* mutant: consecutive blocks of the sorted labels, as plain KFold deals them
allocationBlocks(y, fold, k) ==
  LET n == Size(y)
      size(m) == (n \div n_splits) + (IF m < n % n_splits THEN 1 ELSE 0)
      start == IF fold = 0 THEN 0 ELSE SumSeq([m \in 1..fold |-> size(m - 1)])
  IN  Cardinality({pos \in start..(start + size(fold) - 1) : y_order(y, pos) = k})

\* np.bincount(y_order[i::n_splits]): how many samples of class k fold i gets
allocation(y, fold, k) ==
  Cardinality({pos \in DOMAIN y : pos % n_splits = fold /\ y_order(y, pos) = k})

\* n_splits > n_samples, or n_splits > the size of every class
TooFewSamples(y) ==
  \/ n_splits > Size(y)
  \/ \A k \in 0..(n_classes(y) - 1) : n_splits > y_counts(y, k)

SK_Init ==
  /\ labels \in LabelVectors
  /\ test_folds = <<>>
  /\ folds_for_class = <<>>
  /\ yielded = 0
  /\ train = <<>>
  /\ test = <<>>
  /\ pc = "kfold_split"
  /\ GI_Idle
  /\ AZ_Idle
  /\ G3_Idle
  /\ NB_Idle
  /\ PK_Idle

\* the checks of split and _make_test_folds, then the allocation
SK_MakeTestFolds ==
  /\ pc = "kfold_split"
  /\ IF TooFewSamples(labels)
     THEN /\ pc' = "ValueError"
          /\ folds_for_class' = folds_for_class
     ELSE /\ pc' = "shuffle"
          /\ folds_for_class' =
               [k \in 0..(n_classes(labels) - 1) |->
                  [fold \in 0..(n_splits - 1) |-> allocation(labels, fold, k)]]
  /\ UNCHANGED <<labels, test_folds, yielded, train, test>>
  /\ UNCHANGED notSK

\* rng.shuffle(folds_for_class); test_folds[y_encoded == k] = folds_for_class:
\* the next sample gets any fold its class still has to hand out
SK_Shuffle ==
  /\ pc = "shuffle"
  /\ Size(test_folds) < Size(labels)
  /\ LET j == Size(test_folds)
         k == y_encoded(labels, j)
     IN  \E fold \in 0..(n_splits - 1) :
            /\ folds_for_class[k][fold] > 0
            /\ test_folds' = [m \in 0..j |-> IF m = j THEN fold ELSE test_folds[m]]
            /\ folds_for_class' = [folds_for_class EXCEPT ![k][fold] = @ - 1]
  /\ UNCHANGED <<pc, labels, yielded, train, test>>
  /\ UNCHANGED notSK

\* for i in range(n_splits): yield the samples outside fold i and those in it
SK_Yield ==
  /\ pc = "shuffle"
  /\ Size(test_folds) = Size(labels)
  /\ yielded < n_splits
  /\ test' = Append(test, {j \in DOMAIN labels : test_folds[j] = yielded})
  /\ train' = Append(train, {j \in DOMAIN labels : test_folds[j] # yielded})
  /\ yielded' = yielded + 1
  /\ pc' = IF yielded + 1 = n_splits THEN "split_done" ELSE pc
  /\ UNCHANGED <<labels, test_folds, folds_for_class>>
  /\ UNCHANGED notSK

SK_Next ==
  \/ SK_MakeTestFolds
  \/ SK_Shuffle
  \/ SK_Yield

SpecSplit == SK_Init /\ [][SK_Next]_vars

\* ---------------------- eeg_to_images: the main cell, then the pickle cell
\* line 277
matrices ==
  <<"full_feat", "pd_feat", "nc_feat", "E1_feat", "E2_feat", "E3_feat",
    "E4_feat", "E5_feat", "E6_feat">>

\* a key of matContent: matrix, or matrix + '_img'
Key(name, suffix) == <<name, suffix>>

Printed(text) == Append(printed, text)

\* the data file holds any of the matrices
PK_Init ==
  /\ mat_keys \in SUBSET {matrices[n] : n \in 1..Len(matrices)}
  /\ matContent = NoDict
  /\ matrix = 0
  /\ mat_file = "unbound"
  /\ printed = <<>>
  /\ pc = "main"
  /\ GI_Idle
  /\ AZ_Idle
  /\ G3_Idle
  /\ NB_Idle
  /\ SK_Idle

\* lines 266-280: the electrode positions and matContent = loadmat(...)
PK_Load ==
  /\ pc = "main"
  /\ matContent' = [bound |-> TRUE, keys |-> {Key(name, "") : name \in mat_keys}]
  /\ printed' = Printed("Loading data...")
  /\ pc' = "matrices"
  /\ UNCHANGED <<mat_keys, matrix, mat_file>>
  /\ UNCHANGED notPK

\* lines 269, 278: a loadmat raises and the cell is left
PK_LoadFails ==
  /\ pc = "main"
  /\ printed' = Printed("Loading data...")
  /\ pc' = "pickle"
  /\ UNCHANGED <<mat_keys, matContent, matrix, mat_file>>
  /\ UNCHANGED notPK

\* lines 282-291: one matrix is replaced by its images; a matrix the file
\* does not hold raises KeyError at line 283
PK_Matrix ==
  /\ pc = "matrices"
  /\ matrix < Len(matrices)
  /\ LET name == matrices[matrix + 1]
     IN  IF Key(name, "") \in matContent.keys
         THEN /\ matContent' = [matContent EXCEPT
                                  !.keys = (@ \ {Key(name, "")}) \cup {Key(name, "_img")}]
              /\ matrix' = matrix + 1
              /\ printed' = printed \o <<"Generating images for", "Image size:">>
              /\ pc' = pc
         ELSE /\ UNCHANGED <<matContent, matrix, printed>>
              /\ pc' = "pickle"
  /\ UNCHANGED <<mat_keys, mat_file>>
  /\ UNCHANGED notPK

\* line 287: gen_images raises, after del matContent[matrix]
PK_MatrixFails ==
  /\ pc = "matrices"
  /\ matrix < Len(matrices)
  /\ Key(matrices[matrix + 1], "") \in matContent.keys
  /\ matContent' = [matContent EXCEPT !.keys = @ \ {Key(matrices[matrix + 1], "")}]
  /\ printed' = Printed("Generating images for")
  /\ pc' = "pickle"
  /\ UNCHANGED <<mat_keys, matrix, mat_file>>
  /\ UNCHANGED notPK

\* lines 292-294
PK_MainDone ==
  /\ pc = "matrices"
  /\ matrix = Len(matrices)
  /\ printed' = printed \o <<"saving...", "Save file done..">>
  /\ pc' = "pickle"
  /\ UNCHANGED <<mat_keys, matContent, matrix, mat_file>>
  /\ UNCHANGED notPK

\* line 311: mat_file = open(filename, 'wb')
PK_Open ==
  /\ pc = "pickle"
  /\ mat_file' = "open"
  /\ pc' = "dump"
  /\ UNCHANGED <<mat_keys, matContent, matrix, printed>>
  /\ UNCHANGED notPK

\* line 311 raises; lines 315-316
PK_OpenFails ==
  /\ pc = "pickle"
  /\ printed' = Printed("Something went wrong")
  /\ pc' = "finished"
  /\ UNCHANGED <<mat_keys, matContent, matrix, mat_file>>
  /\ UNCHANGED notPK

\* line 313: pickle.dump(matContent, mat_file, protocol=4); matContent not
\* bound is a NameError, caught at line 315 like any other
PK_Dump ==
  /\ pc = "dump"
  /\ IF matContent.bound
     THEN pc' = "close" /\ printed' = printed
     ELSE pc' = "finished" /\ printed' = Printed("Something went wrong")
  /\ UNCHANGED <<mat_keys, matContent, matrix, mat_file>>
  /\ UNCHANGED notPK

\* line 313 raises while writing; lines 315-316
PK_DumpFails ==
  /\ pc = "dump"
  /\ matContent.bound
  /\ printed' = Printed("Something went wrong")
  /\ pc' = "finished"
  /\ UNCHANGED <<mat_keys, matContent, matrix, mat_file>>
  /\ UNCHANGED notPK

\* line 314: mat_file.close()
PK_Close ==
  /\ pc = "close"
  /\ mat_file' = "closed"
  /\ pc' = "finished"
  /\ UNCHANGED <<mat_keys, matContent, matrix, printed>>
  /\ UNCHANGED notPK

\* line 314 raises on the final flush (the file is closed all the same);
\* lines 315-316
PK_CloseFails ==
  /\ pc = "close"
  /\ mat_file' = "closed"
  /\ printed' = Printed("Something went wrong")
  /\ pc' = "finished"
  /\ UNCHANGED <<mat_keys, matContent, matrix>>
  /\ UNCHANGED notPK

PK_Next ==
  \/ PK_Load
  \/ PK_LoadFails
  \/ PK_Matrix
  \/ PK_MatrixFails
  \/ PK_MainDone
  \/ PK_Open
  \/ PK_OpenFails
  \/ PK_Dump
  \/ PK_DumpFails
  \/ PK_Close
  \/ PK_CloseFails

SpecPickle == PK_Init /\ [][PK_Next]_vars

\* ================================================================== claims
Failed == {"AssertionError", "NameError", "TypeError"}

IsShape(t, n, k, g) ==
  /\ DOMAIN t = 0..(n - 1)
  /\ \A s \in DOMAIN t :
       /\ DOMAIN t[s] = 0..(k - 1)
       /\ \A cc \in DOMAIN t[s] :
            /\ DOMAIN t[s][cc] = 0..(g - 1)
            /\ \A a \in DOMAIN t[s][cc] : DOMAIN t[s][cc][a] = 0..(g - 1)

Cols == Size(features[0])

\* locs.shape[0] of the argument (line 190 rebinds the local name locs)
Electrodes == IF pc = "start" THEN Size(locs) ELSE nElectrodes

C2_BandsByPosition ==
  /\ ((pc = "augment" /\ c = 0) \/ (pc = "grid" /\ ~augment)) =>
       /\ DOMAIN feat_array_temp = 0..((Cols \div nElectrodes) - 1)
       /\ \A cc \in DOMAIN feat_array_temp, s \in DOMAIN features :
            /\ DOMAIN feat_array_temp[cc][s] = 0..(nElectrodes - 1)
            /\ \A j \in 0..(nElectrodes - 1) :
                 feat_array_temp[cc][s][j] = features[s][cc * nElectrodes + j]
       /\ \A col \in DOMAIN features[0] :
            Cardinality({cj \in (DOMAIN feat_array_temp) \X (0..(nElectrodes - 1)) :
                           cj[1] * nElectrodes + cj[2] = col}) = 1
  /\ (pc = "done" /\ ~normalize /\ ~augment) =>
       \A s \in DOMAIN images, cc \in DOMAIN images[0], j \in DOMAIN locs,
          a \in 0..(n_gridpoints - 1), b \in 0..(n_gridpoints - 1) :
            GridPoint(locs, n_gridpoints, a, b) = Scaled(locs[j], n_gridpoints) =>
              images[s][cc][a][b] = Num(features[s][cc * nElectrodes + j])

C2_Witness ==
  /\ pc = "done" /\ ~normalize /\ ~augment
  /\ Cols = 2 * nElectrodes
  /\ Size(features) = 2
  /\ \E a \in 0..(n_gridpoints - 1), b \in 0..(n_gridpoints - 1) :
        /\ images[1][1][a][b] # images[1][0][a][b]
        /\ images[1][1][a][b] # images[0][1][a][b]

\* C3: when the feature length is not a multiple of the number of electrodes
\* the call ends in the assertion error of line 163 with nothing split,
\* augmented, interpolated or normalised and no tensor returned.
C3_AssertBeforeWork ==
  (Cols % Electrodes # 0) =>
     /\ pc \in {"start", "AssertionError"}
     /\ feat_array_temp = None
     /\ temp_interp = None
     /\ images = None

C3_Witness ==
  /\ pc = "AssertionError"
  /\ Cols > Electrodes
  /\ augment /\ normalize

\* C4: with edgeless=True gen_images adds the four corner channels with
\* value 0 to every band and returns the image tensor.
C4_EdgelessReturns ==
  (edgeless /\ pc \notin {"start", "split", "augment", "grid", "edgeless",
                            "interp", "normalize", "return"}
     /\ ~(augment /\ pca) /\ pc # "AssertionError") =>
       /\ pc = "done"
       /\ IsShape(images, n_samples, int(n_colors), n_gridpoints)

\* C5: augment_EEG returns a matrix of the shape of data, with pca=False and
\* with pca=True: after the augmentation of gen_images every band still has
\* n_samples rows of nElectrodes columns, and the call has not failed in it.
C5_AugmentKeepsShape ==
  /\ pc # "NameError"
  /\ (augment /\ pc = "grid") =>
        \A cc \in DOMAIN feat_array_temp :
           /\ DOMAIN feat_array_temp[cc] = DOMAIN features
           /\ \A s \in DOMAIN features :
                DOMAIN feat_array_temp[cc][s] = 0..(nElectrodes - 1)

\* the interpolated image of sample s, band cc, from the arguments
Raw(s, cc) ==
  griddata(locs, [j \in 0..(nElectrodes - 1) |-> features[s][cc * nElectrodes + j]],
           n_gridpoints)

RECURSIVE PixelSum(_, _, _)
PixelSum(raw, P, square) ==
  IF P = {} THEN 0
  ELSE LET p == CHOOSE q \in P : TRUE
           x == raw[p[1]][p[2]][p[3]][1]
       IN  (IF square THEN x * x ELSE x) + PixelSum(raw, P \ {p}, square)

\* C6: with normalize=True every band is standardised over all its samples:
\* a non-NaN pixel x of band c becomes (x - mean_c) / std_c, with mean_c and
\* std_c the mean and the population standard deviation of the non-NaN pixels
\* of band c in all samples (0 when that std is 0); with normalize=False the
\* interpolated value is returned as it is; NaN is returned as 0 in both.
C6_NormalizePerBand ==
  (pc = "done" /\ ~augment) =>
     \A cc \in DOMAIN images[0] :
        LET raw == [s \in DOMAIN images |-> Raw(s, cc)]
            G == 0..(n_gridpoints - 1)
            P == {p \in (DOMAIN images) \X G \X G : ~isnan(raw[p[1]][p[2]][p[3]])}
            N == Cardinality(P)
            S == PixelSum(raw, P, FALSE)
            D == N * PixelSum(raw, P, TRUE) - S * S
        IN  \A s \in DOMAIN images, a \in G, b \in G :
               images[s][cc][a][b] =
                 IF isnan(raw[s][a][b]) THEN Num(0)
                 ELSE IF ~normalize THEN raw[s][a][b]
                 ELSE IF D = 0 THEN Num(0)
                 ELSE <<N * raw[s][a][b][1] - S, D>>

C6_Witness ==
  /\ pc = "done" /\ ~augment /\ normalize
  /\ Size(features) = 2 /\ Cols = 2 * nElectrodes
  /\ \E a \in 0..(n_gridpoints - 1), b \in 0..(n_gridpoints - 1) :
        /\ isnan(Raw(0, 0)[a][b])
        /\ images[0][0][a][b] = Num(0)
  /\ \E a \in 0..(n_gridpoints - 1), b \in 0..(n_gridpoints - 1) :
        /\ images[0][0][a][b][1] < 0
        /\ images[1][0][a][b][1] > 0

\* C7: azim_proj(pos) is the point whose polar angle is the azimuth
\* atan2(y, x) of pos and whose distance from the origin is pi/2 minus the
\* elevation atan2(z, sqrt(x^2 + y^2)) of pos; two
\* points on the same ray from the origin have the same projection, and a
\* point on the positive z axis is projected to the origin.
C7_AzimuthalEquidistant ==
  \A n \in 1..Len(locs_2d) :
     LET p == locs_3d[n]
         elev == atan2(Real(p[3]), sqrt(p[1] * p[1] + p[2] * p[2]))
         colat == PiHalfMinus(elev)
     IN  /\ locs_2d[n] = IF colat = ZeroAngle THEN Origin
                         ELSE [rho |-> colat, theta |-> atan2(Real(p[2]), Real(p[1]))]
         /\ (p[1] = 0 /\ p[2] = 0 /\ p[3] > 0) => locs_2d[n] = Origin
         /\ \A m \in 1..Len(locs_2d) :
              (\E k \in 1..MaxCoord : locs_3d[m] = <<k * p[1], k * p[2], k * p[3]>>)
                 => locs_2d[m] = locs_2d[n]

C7_Witness ==
  /\ Len(locs_2d) = 2
  /\ locs_3d[1] = <<1, -1, 1>> /\ locs_3d[2] = <<2, -2, 2>>
  /\ locs_2d[1] = locs_2d[2]
  /\ locs_2d[1] # Origin

\* the interpolated and normalised image of row t of the slice features[s],
\* band cc, written out from the arguments
SliceImage(s, t, cc) ==
  LET len == features.shape[2]
      G == 0..(n_gridpoints - 1)
      raw == [u \in 0..(len - 1) |->
                griddata(locs, [j \in 0..(nElectrodes - 1) |->
                                  features.data[s][u][cc * nElectrodes + j]],
                         n_gridpoints)]
      P == {p \in (0..(len - 1)) \X G \X G : ~isnan(raw[p[1]][p[2]][p[3]])}
      N == Cardinality(P)
      S == PixelSum(raw, P, FALSE)
      D == N * PixelSum(raw, P, TRUE) - S * S
  IN  [a \in G |-> [b \in G |->
         IF isnan(raw[t][a][b]) \/ D = 0 THEN Num(0)
         ELSE <<N * raw[t][a][b][1] - S, D>>]]

\* C8: gen_images_3d returns a tensor of shape [n_samples, length, k,
\* n_gridpoints, n_gridpoints] whose entry s is gen_images of the slice
\* features[s] (normalised over the rows of that slice), in sample order; for
\* n_samples = 0 it is the empty tensor of shape [0, length, k, G, G].
C8_StackOfImages ==
  pc = "done3" =>
     LET k == features.shape[3] \div nElectrodes
     IN  /\ images_mat.shape =
              <<features.shape[1], features.shape[2], k, n_gridpoints, n_gridpoints>>
         /\ DOMAIN images_mat.data = 0..(features.shape[1] - 1)
         /\ \A s \in DOMAIN images_mat.data :
              /\ IsShape(images_mat.data[s], features.shape[2], k, n_gridpoints)
              /\ images_mat.data[s] =
                   gen_images(locs, features.data[s], n_gridpoints, TRUE)
              /\ \A t \in 0..(features.shape[2] - 1), cc \in 0..(k - 1) :
                   images_mat.data[s][t][cc] = SliceImage(s, t, cc)

C8_Witness ==
  /\ pc = "done3"
  /\ features.shape[1] = 2 /\ features.shape[2] = 2
  /\ features.shape[3] = 2 * nElectrodes
  /\ images_mat.shape = <<2, 2, 2, n_gridpoints, n_gridpoints>>
  /\ images_mat.data[0] # images_mat.data[1]

C8_WitnessEmpty ==
  /\ pc = "done3"
  /\ features.shape[1] = 0
  /\ images_mat.data = <<>>

\* C10: for every value of its optimizer argument the model create_model
\* returns has been compiled with a loss and an optimizer.
C10_AlwaysCompiled ==
  pc = "returned" =>
     /\ estimator.bound
     /\ estimator.compiled
     /\ estimator.loss # ""
     /\ estimator.opt = args.optimizer

Shown(x) == \E n \in 1..Len(shown) : shown[n] = x

\* C9: the steps of the training notebook occur in the order load, transform,
\* train, evaluate, plot.  A model is built and fitted only with the data
\* loaded and X set; in a fold the test split is predicted only once the fit
\* of that fold's model has finished; every fold evaluated has been fitted
\* first; and the curves, the confusion-matrix figure and the results file
\* exist only when all n_splits folds have been trained and evaluated.
C9_PipelineOrder ==
  /\ estimator.bound => Bound("features") /\ Bound("X")
  /\ (predicted >= 0 /\ predicted = split) =>
        /\ estimator.fitted
        /\ estimator.fold = split
        /\ dummy = split
  /\ predicted <= dummy
  /\ \A n \in 1..Len(cm_list) : cm_list[n] = n - 1 /\ n - 1 <= dummy
  /\ \A n \in 1..Len(train_loss) : train_loss[n] = n - 1 /\ n <= Len(cm_list)
  /\ (shown # <<>> \/ saved) =>
        /\ Len(cm_list) = n_splits
        /\ Len(train_loss) = n_splits
        /\ f = n_splits
        /\ pc \in {"conf_mat", "save", "end"}
  /\ Shown("conf_mat") => Shown("curves")
  /\ saved => shown = <<"curves", "conf_mat">>

C9_Witness ==
  /\ pc = "end"
  /\ saved
  /\ shown = <<"curves", "conf_mat">>
  /\ cm_list = <<0, 1, 2, 3, 4>>
  /\ estimator.fitted

InLoop == pc \in {FoldBody[n] : n \in 1..Len(FoldBody)}

\* C11: when the cells are run in order, the k-fold loop calls create_model
\* with the hyperparameters the grid search selected (the dict
\* grid_result.best_params_), which have replaced the best_params loaded from
\* the results file; every model built in the loop carries them, they are the
\* same for all folds, and they are what the results file receives.
C11_GridParamsInLoop ==
  /\ pc = "fold_create" => best_params.kind = "dict"
  /\ (InLoop /\ estimator.fold >= 0) =>
        /\ best_params.kind = "dict"
        /\ estimator.init_mode = best_params.init_mode
        /\ estimator.activation = best_params.activation
        /\ estimator.dropout_rate = best_params.dropout_rate
        /\ estimator.compiled => estimator.opt = best_params.optimizer
  /\ saved => best_params.kind = "dict"

Nets == {precisionNet, recallNet, f1_MacroNet, f1_weightedNet, accNet}

Histories == {cm_list, train_loss, val_loss, train_accuracy, val_accuracy}

\* C12: once the k-fold cell has set its counters, 0 <= f <= foldNum; the
\* fold being scored is fold f and f is an index of the per-fold arrays, which
\* have foldNum entries; entry i of precisionNet, recallNet, f1_MacroNet,
\* f1_weightedNet and accNet has been written exactly once if fold i is over
\* and never otherwise; the five lists hold one entry per finished fold; and
\* when the loop has ended f = foldNum = n_splits.
C12_FoldCounter ==
  Bound("f") =>
     /\ 0 <= f /\ f <= foldNum
     /\ f = split
     /\ pc = "fold_metrics" => f < foldNum
     /\ \A net \in Nets :
           /\ DOMAIN net = 0..(foldNum - 1)
           /\ \A n \in DOMAIN net : net[n] = IF n < f THEN 1 ELSE 0
     /\ \A list \in Histories : Len(list) = f
     /\ pc = "stats" => f = foldNum /\ foldNum = n_splits

C12_Witness ==
  /\ pc = "stats"
  /\ f = n_splits
  /\ \A net \in Nets : \A n \in 0..(n_splits - 1) : net[n] = 1
  /\ \A list \in Histories : Len(list) = n_splits

TestCount(fold, class) ==
  Cardinality({j \in test[fold + 1] : labels[j] = class})

Abs(x) == IF x < 0 THEN -x ELSE x

\* C13: when StratifiedKFold has yielded its 5 splits, every sample is in the
\* test split of exactly one of them, the train split of a fold holds all the
\* other samples, and for every class the numbers of its samples in the test
\* splits of any two folds differ by at most 1.
C13_StratifiedSplits ==
  pc = "split_done" =>
     /\ Len(test) = n_splits
     /\ \A j \in DOMAIN labels :
           Cardinality({fold \in 0..(n_splits - 1) : j \in test[fold + 1]}) = 1
     /\ \A fold \in 0..(n_splits - 1) :
           train[fold + 1] = DOMAIN labels \ test[fold + 1]
     /\ \A class \in Classes : \A fold, other \in 0..(n_splits - 1) :
           Abs(TestCount(fold, class) - TestCount(other, class)) <= 1

C13_Witness ==
  /\ pc = "split_done"
  /\ {labels[j] : j \in DOMAIN labels} = Classes
  /\ \E class \in Classes : \E fold, other \in 0..(n_splits - 1) :
        TestCount(fold, class) = 2 /\ TestCount(other, class) = 1

\* C14: the pickle cell never raises; when it has finished, a failure of open
\* or of the dump has been reported by printing "Something went wrong" and by
\* nothing else, and the output file, once opened, is closed, whether the dump
\* succeeded or failed.
C14_PickleCellCloses ==
  pc = "finished" =>
     /\ mat_file \in {"unbound", "closed"}
     /\ mat_file = "unbound" => printed[Len(printed)] = "Something went wrong"

====
